---- MODULE Spec2Model ----
(***************************************************************************)
(* A model of lilc3, an LC-3 simulator: the instruction codec              *)
(* (src/src/instruction.rs) and the execution engine (src/src/lib.rs).     *)
(*                                                                         *)
(* Machine words are u16: every operator below keeps its result in         *)
(* 0..65535 exactly where the Rust operation does.  Two properties of the  *)
(* build decide outcomes the source leaves open and are drawn in Init:     *)
(*   big_endian       u16::to_be is the identity on a big-endian target    *)
(*                    and a byte swap on a little-endian one;              *)
(*   overflow_checks  `+` and `+=` on u16 panic on overflow when the       *)
(*                    build has overflow checks (the dev/test profile) and *)
(*                    wrap when it has not (the release profile).          *)
(***************************************************************************)
EXTENDS Integers, Sequences, FiniteSets, TLC

VARIABLES
    big_endian,       \* build: target endianness (to_be)
    overflow_checks,  \* build: arithmetic overflow panics
    memory,           \* LC3.memory, as the finite map of its non-zero words
    registers,        \* LC3.registers
    pc,               \* LC3.pc
    cond,             \* LC3.cond, the bits of the CondFlag
    running,          \* LC3.running
    ctl,              \* where the caller of the machine is: idle, run, panicked
    stdout,           \* bytes written to standard output
    last,             \* history: what the last operation on the machine was
    nsteps,           \* history: number of step() calls so far
    codec             \* the codec operation applied last, with input and result

vars == << big_endian, overflow_checks, memory, registers, pc, cond, running,
           ctl, stdout, last, nsteps, codec >>

machine_vars == << memory, registers, pc, cond, running, ctl, stdout, last, nsteps >>

(***************************************************************************)
(* u16 arithmetic                                                          *)
(***************************************************************************)
U16_MAX == 65535

Pow2(n) == 2 ^ n

RECURSIVE BitAndN(_, _, _)
BitAndN(a, b, n) ==
    IF n = 0 THEN 0
    ELSE (IF a % 2 = 1 /\ b % 2 = 1 THEN 1 ELSE 0)
         + 2 * BitAndN(a \div 2, b \div 2, n - 1)

RECURSIVE BitOrN(_, _, _)
BitOrN(a, b, n) ==
    IF n = 0 THEN 0
    ELSE (IF a % 2 = 1 \/ b % 2 = 1 THEN 1 ELSE 0)
         + 2 * BitOrN(a \div 2, b \div 2, n - 1)

\* a & b, a | b, !a, a << n, a >> n on u16 (n < 16, so no shift panics)
BitAnd(a, b) == BitAndN(a, b, 16)
BitOr(a, b) == BitOrN(a, b, 16)
BitNot(a) == U16_MAX - a
Shl(a, n) == (a * Pow2(n)) % (U16_MAX + 1)
Shr(a, n) == a \div Pow2(n)

\* x as u8, and a u32 sum as u16
AsU8(x) == x % 256
AsU16(x) == x % (U16_MAX + 1)

swap_bytes(x) == (x % 256) * 256 + (x \div 256)

\* u16::to_be
to_be(x) == IF big_endian THEN x ELSE swap_bytes(x)

(***************************************************************************)
(* CondFlag (bitflags) and TrapCode                                        *)
(***************************************************************************)
POSITIVE == 1
NEGATIVE == 2
ZERO == 4

\* CondFlag::all().bits(): the union of the declared flags
CondFlag_all == POSITIVE + NEGATIVE + ZERO

\* a variant of CondFlag::from_bits for a CondFlag that declares no ZERO flag
CondFlag_from_bits_two_flags(b) ==
    IF BitAnd(b, 255 - (POSITIVE + NEGATIVE)) = 0 THEN b ELSE -1

\* CondFlag::from_bits(b): the flags with bits b when every bit set in b is a
\* declared flag, and None, here -1, when one is not
CondFlag_from_bits(b) ==
    IF BitAnd(b, 255 - CondFlag_all) = 0 THEN b ELSE -1

TrapCodes == { "GetC", "Out", "Puts", "In", "PutsP", "Halt" }

\* TrapCode as u8
TrapCode_bits(t) ==
    CASE t = "GetC" -> 32
      [] t = "Out" -> 33
      [] t = "Puts" -> 34
      [] t = "In" -> 35
      [] t = "PutsP" -> 36
      [] t = "Halt" -> 37

UnrecognizedOpcode == [tag |-> "UnrecognizedOpcode"]
UnrecognizedTrapCode == [tag |-> "UnrecognizedTrapCode"]

\* Option::unwrap on None, in get_nzp
UnwrapOnNone == [tag |-> "UnwrapOnNone"]

IsPanic(x) == x.tag \in { "UnrecognizedOpcode", "UnrecognizedTrapCode", "UnwrapOnNone" }

\* a variant of TrapCode::from_bits with the arms of 0x22 and 0x23 exchanged
TrapCode_from_bits_swapped(bits) ==
    CASE bits = 32 -> "GetC"
      [] bits = 33 -> "Out"
      [] bits = 34 -> "In"
      [] bits = 35 -> "Puts"
      [] bits = 36 -> "PutsP"
      [] bits = 37 -> "Halt"
      [] OTHER -> "panic"

\* TrapCode::from_bits: a panic for every byte that is no trap code
TrapCode_from_bits(bits) ==
    CASE bits = 32 -> "GetC"
      [] bits = 33 -> "Out"
      [] bits = 34 -> "Puts"
      [] bits = 35 -> "In"
      [] bits = 36 -> "PutsP"
      [] bits = 37 -> "Halt"
      [] OTHER -> "panic"

(***************************************************************************)
(* Bit fields                                                              *)
(***************************************************************************)
get_bit_field(instr, start, end) ==
    BitAnd(Shr(instr, start), BitNot(Shl(U16_MAX, end - start)))

set_bit_field(instr, field, start) == BitOr(instr, Shl(field, start))

\* a variant of sign_extend_u16 that tests the bit above the field's sign bit
sign_extend_u16_wrong_bit(val, original_length) ==
    IF Shr(val, original_length) = 1
    THEN BitOr(Shl(U16_MAX, original_length), val)
    ELSE val

sign_extend_u16(val, original_length) ==
    IF Shr(val, original_length - 1) = 1
    THEN BitOr(Shl(U16_MAX, original_length), val)
    ELSE val

\* OpCode as u16
OpCode_value(op) ==
    CASE op = "Branch" -> 0
      [] op = "Add" -> 1
      [] op = "Load" -> 2
      [] op = "Store" -> 3
      [] op = "JumpSubRoutine" -> 4
      [] op = "And" -> 5
      [] op = "LoadBaseOffset" -> 6
      [] op = "StoreBaseOffset" -> 7
      [] op = "Unused" -> 8
      [] op = "Not" -> 9
      [] op = "LoadIndirect" -> 10
      [] op = "StoreIndirect" -> 11
      [] op = "Jump" -> 12
      [] op = "Reserved" -> 13
      [] op = "LoadEffectiveAddress" -> 14
      [] op = "Trap" -> 15

set_opcode(instr, op) == set_bit_field(instr, OpCode_value(op), 12)
get_opcode(instr) == get_bit_field(instr, 12, 16)

\* a variant of OpCode::from_instruction with an arm for the reserved opcode
OpCode_from_instruction_reserved_arm(instruction) ==
    LET opcode == get_bit_field(instruction, 12, 16) IN
    CASE opcode = 0 -> "Branch"
      [] opcode = 1 -> "Add"
      [] opcode = 2 -> "Load"
      [] opcode = 3 -> "Store"
      [] opcode = 4 -> "JumpSubRoutine"
      [] opcode = 5 -> "And"
      [] opcode = 6 -> "LoadBaseOffset"
      [] opcode = 7 -> "StoreBaseOffset"
      [] opcode = 9 -> "Not"
      [] opcode = 10 -> "LoadIndirect"
      [] opcode = 11 -> "StoreIndirect"
      [] opcode = 12 -> "Jump"
      [] opcode = 13 -> "Jump"
      [] opcode = 14 -> "LoadEffectiveAddress"
      [] opcode = 15 -> "Trap"
      [] OTHER -> "panic"

\* OpCode::from_instruction: todo!() for 8 and 13
OpCode_from_instruction(instruction) ==
    LET opcode == get_opcode(instruction) IN
    CASE opcode = 0 -> "Branch"
      [] opcode = 1 -> "Add"
      [] opcode = 2 -> "Load"
      [] opcode = 3 -> "Store"
      [] opcode = 4 -> "JumpSubRoutine"
      [] opcode = 5 -> "And"
      [] opcode = 6 -> "LoadBaseOffset"
      [] opcode = 7 -> "StoreBaseOffset"
      [] opcode = 9 -> "Not"
      [] opcode = 10 -> "LoadIndirect"
      [] opcode = 11 -> "StoreIndirect"
      [] opcode = 12 -> "Jump"
      [] opcode = 14 -> "LoadEffectiveAddress"
      [] opcode = 15 -> "Trap"
      [] OTHER -> "panic"

set_dr(instr, register) == set_bit_field(instr, register, 9)
get_dr(instr) == AsU8(get_bit_field(instr, 9, 12))
set_sr1(instr, register) == set_bit_field(instr, register, 6)
get_sr1(instr) == AsU8(get_bit_field(instr, 6, 9))
set_sr2(instr, register) == set_bit_field(instr, register, 0)
get_sr2(instr) == AsU8(get_bit_field(instr, 0, 3))

set_imm5(instr, imm5) == BitOr(set_bit_field(instr, imm5, 0), 32)
get_imm5(instr) == sign_extend_u16(get_bit_field(instr, 0, 5), 5)
get_immediate_mode(instr) == get_bit_field(instr, 5, 6)

\* the unwrap of the result panics on None: Branch_decode tests for it
get_nzp(instr) == CondFlag_from_bits(AsU8(get_bit_field(instr, 9, 12)))
set_nzp(instr, c) == set_bit_field(instr, c, 9)

get_base_r(instr) == AsU8(get_bit_field(instr, 6, 8))
set_base_r(instr, base_r) == set_bit_field(instr, base_r, 6)

get_pc_offset_mode(instr) == get_bit_field(instr, 11, 12)
set_pc_offset_mode(instr) == set_bit_field(instr, 1, 11)

get_pc_offset6(instr) == AsU8(sign_extend_u16(get_bit_field(instr, 0, 6), 6))
set_pc_offset6(instr, offset) == set_bit_field(instr, offset, 0)

get_pc_offset9(instr) == sign_extend_u16(get_bit_field(instr, 0, 9), 9)
set_pc_offset9(instr, offset) == set_bit_field(instr, offset, 0)

get_pc_offset11(instr) == sign_extend_u16(get_bit_field(instr, 0, 11), 9)
set_pc_offset11(instr, offset) == set_bit_field(instr, offset, 0)

get_sr(instr) == AsU8(get_bit_field(instr, 9, 12))
set_sr(instr, sr) == set_bit_field(instr, sr, 9)

get_trap_vect8(instr) == TrapCode_from_bits(AsU8(get_bit_field(instr, 0, 8)))
set_trap_vect8(instr, trap_code) == set_bit_field(instr, TrapCode_bits(trap_code), 0)

(***************************************************************************)
(* The instruction variants: encode and decode of each                     *)
(***************************************************************************)
AddImmediate_encode(i) ==
    to_be(set_imm5(set_sr1(set_dr(set_opcode(0, "Add"), i.dr), i.sr1), i.imm5))
AddImmediate_decode(instr) ==
    [tag |-> "AddImmediate", dr |-> get_dr(instr), sr1 |-> get_sr1(instr),
     imm5 |-> get_imm5(instr)]

AddRegister_encode(i) ==
    to_be(set_sr2(set_sr1(set_dr(set_opcode(0, "Add"), i.dr), i.sr1), i.sr2))
AddRegister_decode(instr) ==
    [tag |-> "AddRegister", dr |-> get_dr(instr), sr1 |-> get_sr1(instr),
     sr2 |-> get_sr2(instr)]

AndImmediate_encode(i) ==
    to_be(set_imm5(set_sr1(set_dr(set_opcode(0, "And"), i.dr), i.sr1), i.imm5))
AndImmediate_decode(instr) ==
    [tag |-> "AndImmediate", dr |-> get_dr(instr), sr1 |-> get_sr1(instr),
     imm5 |-> sign_extend_u16(BitAnd(instr, 31), 5)]

AndRegister_encode(i) ==
    to_be(set_sr2(set_sr1(set_dr(set_opcode(0, "And"), i.dr), i.sr1), i.sr2))
AndRegister_decode(instr) ==
    [tag |-> "AndRegister", dr |-> get_dr(instr), sr1 |-> get_sr1(instr),
     sr2 |-> get_sr2(instr)]

Branch_encode(i) ==
    to_be(set_pc_offset9(set_nzp(set_opcode(0, "Branch"), i.nzp), i.pc_offset9))
Branch_decode(instr) ==
    IF get_nzp(instr) < 0 THEN UnwrapOnNone
    ELSE [tag |-> "Branch", nzp |-> get_nzp(instr),
          pc_offset9 |-> get_pc_offset9(instr)]

Jump_encode(i) == to_be(set_base_r(set_opcode(0, "Jump"), i.base_r))
Jump_decode(instr) == [tag |-> "Jump", base_r |-> get_base_r(instr)]

JumpSubRoutineOffset_encode(i) ==
    to_be(set_pc_offset_mode(
              set_pc_offset11(set_opcode(0, "JumpSubRoutine"), i.pc_offset11)))
JumpSubRoutineOffset_decode(instr) ==
    [tag |-> "JumpSubRoutineOffset", pc_offset11 |-> get_pc_offset11(instr)]

JumpSubRoutineRegister_encode(i) ==
    to_be(set_base_r(set_opcode(0, "JumpSubRoutine"), i.base_r))
JumpSubRoutineRegister_decode(instr) ==
    [tag |-> "JumpSubRoutineRegister", base_r |-> get_base_r(instr)]

Load_encode(i) ==
    to_be(set_pc_offset9(set_dr(set_opcode(0, "Load"), i.dr), i.pc_offset9))
Load_decode(instr) ==
    [tag |-> "Load", dr |-> get_dr(instr), pc_offset9 |-> get_pc_offset9(instr)]

LoadBaseOffset_encode(i) ==
    to_be(set_pc_offset6(
              set_base_r(set_dr(set_opcode(0, "LoadBaseOffset"), i.dr), i.base_r),
              i.pc_offset6))
LoadBaseOffset_decode(instr) ==
    [tag |-> "LoadBaseOffset", dr |-> get_dr(instr), base_r |-> get_base_r(instr),
     pc_offset6 |-> get_pc_offset6(instr)]

LoadEffectiveAddress_encode(i) ==
    to_be(set_pc_offset9(set_dr(set_opcode(0, "LoadEffectiveAddress"), i.dr),
                         i.pc_offset9))
LoadEffectiveAddress_decode(instr) ==
    [tag |-> "LoadEffectiveAddress", dr |-> get_dr(instr),
     pc_offset9 |-> get_pc_offset9(instr)]

LoadIndirect_encode(i) ==
    to_be(set_pc_offset9(set_dr(set_opcode(0, "LoadIndirect"), i.dr), i.pc_offset9))
LoadIndirect_decode(instr) ==
    [tag |-> "LoadIndirect", dr |-> get_dr(instr),
     pc_offset9 |-> get_pc_offset9(instr)]

Not_encode(i) ==
    to_be(BitOr(set_sr1(set_dr(set_opcode(0, "Not"), i.dr), i.sr1), 31))
Not_decode(instr) == [tag |-> "Not", dr |-> get_dr(instr), sr1 |-> get_sr1(instr)]

Store_encode(i) ==
    to_be(set_pc_offset9(set_sr(set_opcode(0, "Store"), i.sr), i.pc_offset9))
Store_decode(instr) ==
    [tag |-> "Store", sr |-> get_sr(instr), pc_offset9 |-> get_pc_offset9(instr)]

StoreBaseOffset_encode(i) ==
    to_be(set_pc_offset6(
              set_base_r(set_sr(set_opcode(0, "StoreBaseOffset"), i.sr), i.base_r),
              i.pc_offset6))
StoreBaseOffset_decode(instr) ==
    [tag |-> "StoreBaseOffset", sr |-> get_sr(instr), base_r |-> get_base_r(instr),
     pc_offset6 |-> get_pc_offset6(instr)]

StoreIndirect_encode(i) ==
    to_be(set_pc_offset9(set_sr(set_opcode(0, "StoreIndirect"), i.sr), i.pc_offset9))
StoreIndirect_decode(instr) ==
    [tag |-> "StoreIndirect", sr |-> get_sr(instr),
     pc_offset9 |-> get_pc_offset9(instr)]

Trap_encode(i) == to_be(set_trap_vect8(set_opcode(0, "Trap"), i.vect8))
Trap_decode(instr) ==
    LET vect8 == get_trap_vect8(instr) IN
    IF vect8 = "panic" THEN UnrecognizedTrapCode
    ELSE [tag |-> "Trap", vect8 |-> vect8]

\* Instruction::decode; a panic is the value UnrecognizedOpcode or
\* UnrecognizedTrapCode
Instruction_decode(instr) ==
    LET op == OpCode_from_instruction(instr) IN
    CASE op = "panic" -> UnrecognizedOpcode
      [] op = "Add" ->
            IF get_immediate_mode(instr) = 1 THEN AddImmediate_decode(instr)
            ELSE AddRegister_decode(instr)
      [] op = "And" ->
            IF get_immediate_mode(instr) = 1 THEN AndImmediate_decode(instr)
            ELSE AndRegister_decode(instr)
      [] op = "Branch" -> Branch_decode(instr)
      [] op = "Jump" -> Jump_decode(instr)
      [] op = "JumpSubRoutine" ->
            IF get_pc_offset_mode(instr) = 1 THEN JumpSubRoutineOffset_decode(instr)
            ELSE JumpSubRoutineRegister_decode(instr)
      [] op = "Load" -> Load_decode(instr)
      [] op = "LoadBaseOffset" -> LoadBaseOffset_decode(instr)
      [] op = "LoadEffectiveAddress" -> LoadEffectiveAddress_decode(instr)
      [] op = "LoadIndirect" -> LoadIndirect_decode(instr)
      [] op = "Not" -> Not_decode(instr)
      [] op = "Store" -> Store_decode(instr)
      [] op = "StoreBaseOffset" -> StoreBaseOffset_decode(instr)
      [] op = "StoreIndirect" -> StoreIndirect_decode(instr)
      [] op = "Trap" -> Trap_decode(instr)

\* Instruction::encode
Instruction_encode(i) ==
    CASE i.tag = "AddImmediate" -> AddImmediate_encode(i)
      [] i.tag = "AddRegister" -> AddRegister_encode(i)
      [] i.tag = "AndImmediate" -> AndImmediate_encode(i)
      [] i.tag = "AndRegister" -> AndRegister_encode(i)
      [] i.tag = "Branch" -> Branch_encode(i)
      [] i.tag = "Jump" -> Jump_encode(i)
      [] i.tag = "JumpSubRoutineOffset" -> JumpSubRoutineOffset_encode(i)
      [] i.tag = "JumpSubRoutineRegister" -> JumpSubRoutineRegister_encode(i)
      [] i.tag = "Load" -> Load_encode(i)
      [] i.tag = "LoadBaseOffset" -> LoadBaseOffset_encode(i)
      [] i.tag = "LoadEffectiveAddress" -> LoadEffectiveAddress_encode(i)
      [] i.tag = "LoadIndirect" -> LoadIndirect_encode(i)
      [] i.tag = "Not" -> Not_encode(i)
      [] i.tag = "Store" -> Store_encode(i)
      [] i.tag = "StoreBaseOffset" -> StoreBaseOffset_encode(i)
      [] i.tag = "StoreIndirect" -> StoreIndirect_encode(i)
      [] i.tag = "Trap" -> Trap_encode(i)

(***************************************************************************)
(* The execution engine                                                    *)
(***************************************************************************)
PROGRAM_START == 12288
MAX_MEMORY_SIZE == 65535
REGISTER_COUNT == 8

RegisterIndices == 0 .. (REGISTER_COUNT - 1)

\* memory[a] of a memory given as the map of its non-zero words; the array
\* has MAX_MEMORY_SIZE words, so only a < MAX_MEMORY_SIZE is an index
in_bounds(a) == a < MAX_MEMORY_SIZE
mem_read(m, a) == IF a \in DOMAIN m THEN m[a] ELSE 0
mem_write(m, a, v) ==
    [x \in (DOMAIN m \cup {a}) \ (IF v = 0 THEN {a} ELSE {}) |->
        IF x = a THEN v ELSE m[x]]

\* a + b on u16: whether it panics in this build, and its value when not
add_panics(a, b) == overflow_checks /\ a + b > U16_MAX
add_u16(a, b) == AsU16(a + b)

\* the machine as one value, with `panicked` set once the thread unwinds
machine ==
    [memory |-> memory, registers |-> registers, pc |-> pc, cond |-> cond,
     running |-> running, stdout |-> stdout, panicked |-> FALSE]

panic(st) == [st EXCEPT !.panicked = TRUE]

\* a variant of the flag computation that takes the value as unsigned
flag_of_unsigned(value) == IF value = 0 THEN ZERO ELSE POSITIVE

\* a variant of the flag computation that keeps POSITIVE set with NEGATIVE
flag_of_combined(value) ==
    IF value = 0 THEN ZERO
    ELSE IF Shr(value, 15) = 1 THEN NEGATIVE + POSITIVE
    ELSE POSITIVE

\* the match of set_register on the value written
flag_of(value) ==
    IF value = 0 THEN ZERO
    ELSE IF Shr(value, 15) = 1 THEN NEGATIVE
    ELSE POSITIVE

\* LC3::set_register
set_register(st, register, value) ==
    [st EXCEPT !.cond = flag_of(value), !.registers[register] = value]

add_immediate(st, instr) ==
    set_register(st, instr.dr, AsU16(st.registers[instr.sr1] + instr.imm5))

\* a variant of add_register that adds in u16
add_register_u16(st, instr) ==
    IF add_panics(st.registers[instr.sr1], st.registers[instr.sr2]) THEN panic(st)
    ELSE set_register(st, instr.dr,
                      add_u16(st.registers[instr.sr1], st.registers[instr.sr2]))

add_register(st, instr) ==
    set_register(st, instr.dr,
                 AsU16(st.registers[instr.sr1] + st.registers[instr.sr2]))

\* a variant of and_immediate that takes the low 5 bits of the immediate
and_immediate_low_bits(st, instr) ==
    set_register(st, instr.dr, BitAnd(st.registers[instr.sr1], instr.imm5 % 32))

and_immediate(st, instr) ==
    set_register(st, instr.dr, BitAnd(st.registers[instr.sr1], instr.imm5))

and_register(st, instr) ==
    set_register(st, instr.dr,
                 BitAnd(st.registers[instr.sr1], st.registers[instr.sr2]))

branch(st, instr) ==
    IF BitAnd(instr.nzp, st.cond) > 0
    THEN IF add_panics(st.pc, instr.pc_offset9) THEN panic(st)
         ELSE [st EXCEPT !.pc = add_u16(st.pc, instr.pc_offset9)]
    ELSE st

\* a variant of jump that links register 7 as jump_subroutine_register does
jump_links(st, instr) ==
    LET linked == [st EXCEPT !.registers[7] = st.pc] IN
    [linked EXCEPT !.pc = linked.registers[instr.base_r]]

jump(st, instr) == [st EXCEPT !.pc = st.registers[instr.base_r]]

\* a variant of jump_subroutine_offset that links after the jump
jump_subroutine_offset_links_target(st, instr) ==
    IF add_panics(st.pc, instr.pc_offset11) THEN panic(st)
    ELSE LET jumped == [st EXCEPT !.pc = add_u16(st.pc, instr.pc_offset11)] IN
         [jumped EXCEPT !.registers[7] = jumped.pc]

jump_subroutine_offset(st, instr) ==
    LET linked == [st EXCEPT !.registers[7] = st.pc] IN
    IF add_panics(linked.pc, instr.pc_offset11) THEN panic(linked)
    ELSE [linked EXCEPT !.pc = add_u16(linked.pc, instr.pc_offset11)]

jump_subroutine_register(st, instr) ==
    LET linked == [st EXCEPT !.registers[7] = st.pc] IN
    [linked EXCEPT !.pc = linked.registers[instr.base_r]]

load(st, instr) ==
    LET address == add_u16(st.pc, instr.pc_offset9) IN
    IF add_panics(st.pc, instr.pc_offset9) \/ ~in_bounds(address) THEN panic(st)
    ELSE set_register(st, instr.dr, mem_read(st.memory, address))

load_base_offset(st, instr) ==
    LET base == st.registers[instr.base_r]
        address == add_u16(base, instr.pc_offset6)
    IN  IF add_panics(base, instr.pc_offset6) \/ ~in_bounds(address) THEN panic(st)
        ELSE set_register(st, instr.dr, mem_read(st.memory, address))

load_effective_address(st, instr) ==
    IF add_panics(st.pc, instr.pc_offset9) THEN panic(st)
    ELSE set_register(st, instr.dr, add_u16(st.pc, instr.pc_offset9))

load_indirect(st, instr) ==
    LET indirect == add_u16(st.pc, instr.pc_offset9)
        address == mem_read(st.memory, indirect)
    IN  IF add_panics(st.pc, instr.pc_offset9) \/ ~in_bounds(indirect) THEN panic(st)
        ELSE IF ~in_bounds(address) THEN panic(st)
        ELSE set_register(st, instr.dr, mem_read(st.memory, address))

not(st, instr) == set_register(st, instr.dr, BitNot(st.registers[instr.sr1]))

store(st, instr) ==
    LET address == add_u16(st.pc, instr.pc_offset9) IN
    IF add_panics(st.pc, instr.pc_offset9) \/ ~in_bounds(address) THEN panic(st)
    ELSE [st EXCEPT !.memory = mem_write(st.memory, address, st.registers[instr.sr])]

store_base_offset(st, instr) ==
    LET base == st.registers[instr.base_r]
        address == add_u16(base, instr.pc_offset6)
    IN  IF add_panics(base, instr.pc_offset6) \/ ~in_bounds(address) THEN panic(st)
        ELSE [st EXCEPT !.memory =
                 mem_write(st.memory, address, st.registers[instr.sr])]

store_indirect(st, instr) ==
    LET indirect_address == add_u16(st.pc, instr.pc_offset9)
        address == mem_read(st.memory, indirect_address)
    IN  IF add_panics(st.pc, instr.pc_offset9) \/ ~in_bounds(indirect_address)
        THEN panic(st)
        ELSE IF ~in_bounds(address) THEN panic(st)
        ELSE [st EXCEPT !.memory =
                 mem_write(st.memory, address, st.registers[instr.sr])]

(***************************************************************************)
(* Console output.  Standard output is the sequence of bytes written to    *)
(* it, and is taken to accept every write and flush.                       *)
(***************************************************************************)
\* the decimal digits of n as ASCII bytes: print!("{}", n) of an integer
RECURSIVE Decimal(_)
Decimal(n) ==
    IF n < 10 THEN << 48 + n >>
    ELSE Decimal(n \div 10) \o << 48 + (n % 10) >>

\* the UTF-8 bytes of the char with code b: print!("{}", b as char)
Utf8(b) ==
    IF b < 128 THEN << b >>
    ELSE << 192 + (b \div 64), 128 + (b % 64) >>

HaltNotice == << 72, 65, 76, 84, 10 >>
InPrompt ==
    << 69, 110, 116, 101, 114, 32, 97, 32, 99, 104, 97, 114, 97, 99, 116,
       101, 114, 58, 32 >>

\* a variant of the Puts loop that prints a word before it tests the next one
RECURSIVE puts_loop_prints_first(_, _, _)
puts_loop_prints_first(m, starting_address, out) ==
    IF ~in_bounds(starting_address) THEN [out |-> out, panicked |-> TRUE]
    ELSE LET printed == out \o Utf8(AsU8(mem_read(m, starting_address))) IN
         IF ~in_bounds(starting_address + 1) THEN [out |-> printed, panicked |-> TRUE]
         ELSE IF mem_read(m, starting_address + 1) = 0
              THEN [out |-> printed, panicked |-> FALSE]
              ELSE puts_loop_prints_first(m, starting_address + 1, printed)

\* the Puts loop from `starting_address`: the output, and whether an index ran
\* off the end of memory
RECURSIVE puts_loop(_, _, _)
puts_loop(m, starting_address, out) ==
    IF ~in_bounds(starting_address) THEN [out |-> out, panicked |-> TRUE]
    ELSE LET ch == mem_read(m, starting_address) IN
         IF ch = 0 THEN [out |-> out, panicked |-> FALSE]
         ELSE puts_loop(m, starting_address + 1, out \o Utf8(AsU8(ch)))

\* the PutsP loop: bytes[0] is the high byte and bytes[1] the low byte of the
\* word (to_be_bytes), each printed as a number
RECURSIVE putsp_loop(_, _, _)
putsp_loop(m, starting_address, out) ==
    IF ~in_bounds(starting_address) THEN [out |-> out, panicked |-> TRUE]
    ELSE LET ch == mem_read(m, starting_address)
             bytes0 == ch \div 256
             bytes1 == ch % 256
         IN  IF ch = 0 THEN [out |-> out, panicked |-> FALSE]
             ELSE IF bytes1 = 0
                  THEN [out |-> out \o Decimal(bytes0), panicked |-> FALSE]
                  ELSE putsp_loop(m, starting_address + 1,
                                  out \o Decimal(bytes0) \o Decimal(bytes1))

\* a variant of trap whose GetC writes register 0 through set_register
trap_getc_sets_flags(st, instr, rd) ==
    CASE instr.vect8 = "GetC" ->
            IF rd.ok THEN set_register(st, 0, rd.byte) ELSE panic(st)
      [] instr.vect8 = "Halt" ->
            [st EXCEPT !.stdout = st.stdout \o HaltNotice, !.running = FALSE]
      [] instr.vect8 = "In" ->
            LET prompted == [st EXCEPT !.stdout = st.stdout \o InPrompt] IN
            IF rd.ok THEN [prompted EXCEPT !.registers[0] = rd.byte]
            ELSE panic(prompted)
      [] instr.vect8 = "Out" ->
            [st EXCEPT !.stdout = st.stdout \o Decimal(st.registers[0])]
      [] instr.vect8 = "Puts" ->
            LET r == puts_loop(st.memory, st.registers[0], st.stdout) IN
            [st EXCEPT !.stdout = r.out, !.panicked = r.panicked]
      [] instr.vect8 = "PutsP" ->
            LET r == putsp_loop(st.memory, st.registers[0], st.stdout) IN
            [st EXCEPT !.stdout = r.out, !.panicked = r.panicked]

\* LC3::trap; rd is what read_char finds on standard input: a byte, or
\* nothing (end of input or a read error), on which it panics
trap(st, instr, rd) ==
    CASE instr.vect8 = "GetC" ->
            IF rd.ok THEN [st EXCEPT !.registers[0] = rd.byte] ELSE panic(st)
      [] instr.vect8 = "Halt" ->
            [st EXCEPT !.stdout = st.stdout \o HaltNotice, !.running = FALSE]
      [] instr.vect8 = "In" ->
            LET prompted == [st EXCEPT !.stdout = st.stdout \o InPrompt] IN
            IF rd.ok THEN [prompted EXCEPT !.registers[0] = rd.byte]
            ELSE panic(prompted)
      [] instr.vect8 = "Out" ->
            [st EXCEPT !.stdout = st.stdout \o Decimal(st.registers[0])]
      [] instr.vect8 = "Puts" ->
            LET r == puts_loop(st.memory, st.registers[0], st.stdout) IN
            [st EXCEPT !.stdout = r.out, !.panicked = r.panicked]
      [] instr.vect8 = "PutsP" ->
            LET r == putsp_loop(st.memory, st.registers[0], st.stdout) IN
            [st EXCEPT !.stdout = r.out, !.panicked = r.panicked]

\* the match of LC3::step on the decoded instruction
execute(st, instr, rd) ==
    CASE instr.tag = "AddImmediate" -> add_immediate(st, instr)
      [] instr.tag = "AddRegister" -> add_register(st, instr)
      [] instr.tag = "AndImmediate" -> and_immediate(st, instr)
      [] instr.tag = "AndRegister" -> and_register(st, instr)
      [] instr.tag = "Branch" -> branch(st, instr)
      [] instr.tag = "Jump" -> jump(st, instr)
      [] instr.tag = "JumpSubRoutineOffset" -> jump_subroutine_offset(st, instr)
      [] instr.tag = "JumpSubRoutineRegister" -> jump_subroutine_register(st, instr)
      [] instr.tag = "Load" -> load(st, instr)
      [] instr.tag = "LoadBaseOffset" -> load_base_offset(st, instr)
      [] instr.tag = "LoadEffectiveAddress" -> load_effective_address(st, instr)
      [] instr.tag = "LoadIndirect" -> load_indirect(st, instr)
      [] instr.tag = "Not" -> not(st, instr)
      [] instr.tag = "Store" -> store(st, instr)
      [] instr.tag = "StoreBaseOffset" -> store_base_offset(st, instr)
      [] instr.tag = "StoreIndirect" -> store_indirect(st, instr)
      [] instr.tag = "Trap" -> trap(st, instr, rd)

FetchOutOfBounds == [tag |-> "FetchOutOfBounds"]

\* what step() fetches and decodes in machine state st: an instruction, a
\* decode panic, or FetchOutOfBounds when memory[pc] is no element of memory
fetched(st) ==
    IF ~in_bounds(st.pc) THEN FetchOutOfBounds
    ELSE Instruction_decode(mem_read(st.memory, st.pc))

\* a variant of step() without the increment of the program counter
step_no_increment(st, rd) ==
    IF ~in_bounds(st.pc) THEN panic(st)
    ELSE LET raw_instr == mem_read(st.memory, st.pc)
             instr == Instruction_decode(raw_instr)
         IN  IF IsPanic(instr) THEN panic(st)
             ELSE execute(st, instr, rd)

\* LC3::step
step(st, rd) ==
    IF ~in_bounds(st.pc) \/ add_panics(st.pc, 1) THEN panic(st)
    ELSE LET raw_instr == mem_read(st.memory, st.pc)
             incremented == [st EXCEPT !.pc = add_u16(st.pc, 1)]
             instr == Instruction_decode(raw_instr)
         IN  IF IsPanic(instr) THEN panic(incremented)
             ELSE execute(incremented, instr, rd)

(***************************************************************************)
(* Inputs: the memory images the machine is constructed with, the values   *)
(* a caller passes to set_register, the bytes on standard input            *)
(***************************************************************************)
MaxSteps == 2

\* the word with opcode op, bits 9-11 hi, bits 6-8 mid and bits 0-5 lo
Word(op, hi, mid, lo) == op * 4096 + hi * 512 + mid * 64 + lo

AddWords ==
    { Word(1, dr, sr1, lo) : dr \in {1, 3}, sr1 \in {1, 2}, lo \in {1, 2, 33, 48, 63} }
AndWords == { Word(5, dr, 1, lo) : dr \in {1, 3}, lo \in {2, 49, 63} }
NotWords == { Word(9, dr, sr1, 63) : dr \in {1, 3}, sr1 \in {1, 2} }
BranchWords ==
    { Word(0, nzp, mid, lo) : nzp \in {0, 1, 2, 3, 4, 7}, mid \in {0}, lo \in {0, 10} }
    \cup { Word(0, nzp, 7, 63) : nzp \in {1, 4, 7} }
JumpWords == { Word(12, 0, base_r, 0) : base_r \in {1, 2, 5, 7} }
JsrWords ==
    { Word(4, hi, mid, lo) :
        hi \in {4}, mid \in {0}, lo \in {10} }
    \cup { Word(4, 4, 4, 0), Word(4, 5, 7, 63), Word(4, 6, 0, 0), Word(4, 7, 7, 63) }
    \cup { Word(4, 0, base_r, 0) : base_r \in {1, 5, 7} }
PcRelativeWords ==
    { Word(op, r, 0, 10) : op \in {2, 3, 10, 11, 14}, r \in {1, 2} }
    \cup { Word(op, 1, 7, 63) : op \in {2, 3, 10, 11, 14} }
BaseOffsetWords ==
    { Word(op, 1, base_r, lo) : op \in {6, 7}, base_r \in {2, 5}, lo \in {3, 63} }
TrapWords == { Word(15, 0, 0, lo) : lo \in {0, 32, 33, 34, 35, 36, 37, 38} }
UnsupportedWords == { Word(op, hi, 0, 0) : op \in {8, 13}, hi \in {0, 7} }

ProgWords ==
    AddWords \cup AndWords \cup NotWords \cup BranchWords \cup JumpWords \cup JsrWords
    \cup PcRelativeWords \cup BaseOffsetWords \cup TrapWords \cup UnsupportedWords

\* the two data words of an image: DataA is where a PC-relative offset of 10
\* from the first instruction points, DataB is a word near the top of memory
DataA == PROGRAM_START + 1 + 10
DataB == MAX_MEMORY_SIZE - 1
DataAVals == { 0, 17, 32768, 65534, 65535 }

\* instructions for a second step: at DataA after a taken branch to it, at
\* DataB after a jump to it
SecondWords ==
    { Word(4, 4, 0, 10), Word(4, 0, 1, 0), Word(10, 3, 7, 63), Word(1, 3, 1, 63),
      Word(0, 7, 0, 10), Word(15, 0, 0, 37) }

\* the words whose execution reads a data word of the image
ReadsData(w) == get_opcode(w) \in {2, 10, 11}

ZeroMemory == [a \in {} |-> 0]

\* the image that is zero but for the instruction w at PROGRAM_START and the
\* data words a at DataA and b at DataB
Image(w, a, b) ==
    mem_write(mem_write(mem_write(ZeroMemory, PROGRAM_START, w), DataA, a), DataB, b)

\* an image with a string at DataA: the words 72 and 456 (low byte 200), the
\* terminating zero word, and a non-zero word after it
TextImage(w) ==
    mem_write(mem_write(Image(w, 72, 17), DataA + 1, 456), DataA + 3, 33)

Images ==
    { Image(w, 17, 17) : w \in ProgWords }
    \cup { TextImage(w) : w \in { Word(15, 0, 0, 34), Word(15, 0, 0, 36) } }
    \cup { Image(Word(15, 0, 0, 34), 17, 0) }
    \cup { Image(w, a, 17) : w \in { x \in ProgWords : ReadsData(x) }, a \in DataAVals }
    \cup { Image(Word(0, 7, 0, 10), a, 17) : a \in SecondWords }
    \cup { Image(Word(12, 0, 1, 0), 17, b) : b \in SecondWords }

SetRegs == { 1, 2 }
RegVals == { 1, 12296, 65523, 65534, 65535 }

\* values of register 0 for the traps: the address of a string, a value with a
\* non-zero high byte, the last word below the top of memory
R0Vals == { DataA, 321, DataB }

InputBytes == { 65, 200 }
ReadResults ==
    { [ok |-> TRUE, byte |-> b] : b \in InputBytes } \cup { [ok |-> FALSE, byte |-> 0] }
NoRead == [ok |-> FALSE, byte |-> 0]

NoCodec == [op |-> "none"]

(***************************************************************************)
(* The machine as a state machine: LC3::new, then calls of set_register,   *)
(* step and run by the owner of the machine                                *)
(***************************************************************************)
\* a variant of LC3::new that starts the program counter at address 0
New_pc_zero(image) ==
    /\ memory = image
    /\ registers = [r \in RegisterIndices |-> 0]
    /\ pc = 0
    /\ cond = ZERO
    /\ running = FALSE
    /\ ctl = "idle"
    /\ stdout = << >>
    /\ last = [op |-> "new", image |-> image]
    /\ nsteps = 0

\* LC3::new(image); `last` keeps the image the machine was constructed with
New(image) ==
    /\ memory = image
    /\ registers = [r \in RegisterIndices |-> 0]
    /\ pc = PROGRAM_START
    /\ cond = ZERO
    /\ running = FALSE
    /\ ctl = "idle"
    /\ stdout = << >>
    /\ last = [op |-> "new", image |-> image]
    /\ nsteps = 0

Init ==
    /\ big_endian = FALSE
    /\ overflow_checks \in BOOLEAN
    /\ codec = NoCodec
    /\ \E image \in Images : New(image)

\* the machine's variables take the value of the machine st
Becomes(st) ==
    /\ memory' = st.memory
    /\ registers' = st.registers
    /\ pc' = st.pc
    /\ cond' = st.cond
    /\ running' = st.running
    /\ stdout' = st.stdout
    /\ ctl' = IF st.panicked THEN "panicked" ELSE ctl

\* a call of set_register by the owner of the machine, which sets registers
\* up before it steps the machine
SetRegister(register, value) ==
    /\ ctl = "idle"
    /\ nsteps = 0
    /\ Becomes(set_register(machine, register, value))
    /\ last' = [op |-> "set_register"]
    /\ UNCHANGED << nsteps, big_endian, overflow_checks, codec >>

\* register 0 is the argument of the traps: the owner sets it up on a machine
\* whose program starts with a trap (as tests::puts does)
SetTrapArgument(value) ==
    /\ fetched(machine).tag = "Trap"
    /\ SetRegister(0, value)

\* a variant of step() in the loop of run() that does not test `running`
DoStep_ignores_running(rd) ==
    /\ ctl \in {"idle", "run"}
    /\ nsteps < MaxSteps
    /\ Becomes(step(machine, rd))
    /\ last' = [op |-> "step", pre |-> machine, instr |-> fetched(machine),
                panicked |-> step(machine, rd).panicked]
    /\ nsteps' = nsteps + 1
    /\ UNCHANGED << big_endian, overflow_checks, codec >>

\* one call of step(), by the owner of the machine or by the loop of run();
\* rd is what a read of standard input finds
DoStep(rd) ==
    /\ ctl = "idle" \/ (ctl = "run" /\ running)
    /\ nsteps < MaxSteps
    /\ Becomes(step(machine, rd))
    /\ last' = [op |-> "step", pre |-> machine, instr |-> fetched(machine),
                panicked |-> step(machine, rd).panicked]
    /\ nsteps' = nsteps + 1
    /\ UNCHANGED << big_endian, overflow_checks, codec >>

\* step() by what it fetches
StepFetchPanics ==
    /\ fetched(machine).tag = "FetchOutOfBounds"
    /\ DoStep(NoRead)
StepDecodePanics ==
    /\ IsPanic(fetched(machine))
    /\ DoStep(NoRead)
StepAdd ==
    /\ fetched(machine).tag \in {"AddImmediate", "AddRegister"}
    /\ DoStep(NoRead)
StepAnd ==
    /\ fetched(machine).tag \in {"AndImmediate", "AndRegister"}
    /\ DoStep(NoRead)
StepNot ==
    /\ fetched(machine).tag = "Not"
    /\ DoStep(NoRead)
StepBranch ==
    /\ fetched(machine).tag = "Branch"
    /\ DoStep(NoRead)
StepJump ==
    /\ fetched(machine).tag = "Jump"
    /\ DoStep(NoRead)
StepJumpSubRoutine ==
    /\ fetched(machine).tag \in {"JumpSubRoutineOffset", "JumpSubRoutineRegister"}
    /\ DoStep(NoRead)
StepLoad ==
    /\ fetched(machine).tag \in
          {"Load", "LoadBaseOffset", "LoadEffectiveAddress", "LoadIndirect"}
    /\ DoStep(NoRead)
StepStore ==
    /\ fetched(machine).tag \in {"Store", "StoreBaseOffset", "StoreIndirect"}
    /\ DoStep(NoRead)
StepTrap ==
    /\ fetched(machine).tag = "Trap"
    /\ IF fetched(machine).vect8 \in {"GetC", "In"}
       THEN \E rd \in ReadResults : DoStep(rd)
       ELSE DoStep(NoRead)

Step ==
    \/ StepFetchPanics
    \/ StepDecodePanics
    \/ StepAdd
    \/ StepAnd
    \/ StepNot
    \/ StepBranch
    \/ StepJump
    \/ StepJumpSubRoutine
    \/ StepLoad
    \/ StepStore
    \/ StepTrap

\* LC3::run, called on the machine as constructed (main): the call sets
\* running, the loop steps while it is set (DoStep), and the call returns once
\* it is clear
RunCall ==
    /\ ctl = "idle"
    /\ last.op = "new"
    /\ running' = TRUE
    /\ ctl' = "run"
    /\ last' = [op |-> "run", pre |-> machine]
    /\ UNCHANGED << memory, registers, pc, cond, stdout, nsteps,
                    big_endian, overflow_checks, codec >>

\* a variant of the loop of run() that can leave while running is set
RunReturn_early ==
    /\ ctl = "run"
    /\ ctl' = "idle"
    /\ last' = [op |-> "run_return", pre |-> machine]
    /\ UNCHANGED << memory, registers, pc, cond, running, stdout, nsteps,
                    big_endian, overflow_checks, codec >>

RunReturn ==
    /\ ctl = "run"
    /\ ~running
    /\ ctl' = "idle"
    /\ last' = [op |-> "run_return", pre |-> machine]
    /\ UNCHANGED << memory, registers, pc, cond, running, stdout, nsteps,
                    big_endian, overflow_checks, codec >>

Next ==
    \/ \E register \in SetRegs, value \in RegVals : SetRegister(register, value)
    \/ \E value \in R0Vals : SetTrapArgument(value)
    \/ Step
    \/ RunCall
    \/ RunReturn

Spec == Init /\ [][Next]_vars

(***************************************************************************)
(* The codec on its own: encode or decode applied to one instruction or    *)
(* word, and then the other applied to the result                          *)
(***************************************************************************)
Imm5s == { 0, 1, 15, 16, 17, 31 }
Offset6s == { 0, 3, 31, 32, 63 }
Offset9s == { 0, 10, 255, 256, 511 }
Offset11s == { 0, 10, 255, 256, 511, 512, 1023, 1024, 2047 }
Sources == { 0, 2, 5, 7 }

Instructions ==
    { [tag |-> "AddImmediate", dr |-> dr, sr1 |-> sr1, imm5 |-> imm5] :
        dr \in RegisterIndices, sr1 \in Sources, imm5 \in Imm5s }
    \cup { [tag |-> "AddRegister", dr |-> dr, sr1 |-> sr1, sr2 |-> sr2] :
        dr \in RegisterIndices, sr1 \in Sources, sr2 \in Sources }
    \cup { [tag |-> "AndImmediate", dr |-> dr, sr1 |-> sr1, imm5 |-> imm5] :
        dr \in RegisterIndices, sr1 \in Sources, imm5 \in Imm5s }
    \cup { [tag |-> "AndRegister", dr |-> dr, sr1 |-> sr1, sr2 |-> sr2] :
        dr \in RegisterIndices, sr1 \in Sources, sr2 \in Sources }
    \cup { [tag |-> "Branch", nzp |-> nzp, pc_offset9 |-> o] :
        nzp \in 0 .. 7, o \in Offset9s }
    \cup { [tag |-> "Jump", base_r |-> b] : b \in RegisterIndices }
    \cup { [tag |-> "JumpSubRoutineOffset", pc_offset11 |-> o] : o \in Offset11s }
    \cup { [tag |-> "JumpSubRoutineRegister", base_r |-> b] : b \in RegisterIndices }
    \cup { [tag |-> t, dr |-> dr, pc_offset9 |-> o] :
        t \in {"Load", "LoadEffectiveAddress", "LoadIndirect"},
        dr \in RegisterIndices, o \in Offset9s }
    \cup { [tag |-> "LoadBaseOffset", dr |-> dr, base_r |-> b, pc_offset6 |-> o] :
        dr \in RegisterIndices, b \in Sources, o \in Offset6s }
    \cup { [tag |-> "Not", dr |-> dr, sr1 |-> sr1] :
        dr \in RegisterIndices, sr1 \in RegisterIndices }
    \cup { [tag |-> t, sr |-> sr, pc_offset9 |-> o] :
        t \in {"Store", "StoreIndirect"}, sr \in RegisterIndices, o \in Offset9s }
    \cup { [tag |-> "StoreBaseOffset", sr |-> sr, base_r |-> b, pc_offset6 |-> o] :
        sr \in RegisterIndices, b \in Sources, o \in Offset6s }
    \cup { [tag |-> "Trap", vect8 |-> t] : t \in TrapCodes }

\* words of every opcode; every word of the unsupported opcodes 8 and 13;
\* every vector of a Trap word; every immediate of an Add or And word
Words ==
    { Word(op, hi, mid, lo) :
        op \in 0 .. 15, hi \in 0 .. 7, mid \in {0, 3, 4, 7}, lo \in {0, 3, 10, 31, 63} }
    \cup { op * 4096 + rest : op \in {8, 13}, rest \in 0 .. 4095 }
    \cup { 15 * 4096 + hi * 256 + vect : hi \in {0, 15}, vect \in 0 .. 255 }
    \cup { Word(op, dr, sr1, 32 + imm) :
             op \in {1, 5}, dr \in {0, 5}, sr1 \in {2, 7}, imm \in 0 .. 31 }

InitCodec ==
    /\ big_endian \in BOOLEAN
    /\ overflow_checks = FALSE
    /\ codec = NoCodec
    /\ New(ZeroMemory)

Encode(i) ==
    /\ codec.op = "none"
    /\ codec' = [op |-> "encode", instr |-> i, word |-> Instruction_encode(i)]
    /\ UNCHANGED << machine_vars, big_endian, overflow_checks >>

Decode(w) ==
    /\ codec.op = "none"
    /\ codec' = [op |-> "decode", word |-> w, instr |-> Instruction_decode(w)]
    /\ UNCHANGED << machine_vars, big_endian, overflow_checks >>

\* decode applied to the word encode gave
DecodeEncoded ==
    /\ codec.op = "encode"
    /\ codec' = [op |-> "encode_decode", instr |-> codec.instr, word |-> codec.word,
                 result |-> Instruction_decode(codec.word)]
    /\ UNCHANGED << machine_vars, big_endian, overflow_checks >>

\* encode applied to the instruction decode gave
EncodeDecoded ==
    /\ codec.op = "decode"
    /\ ~IsPanic(codec.instr)
    /\ codec' = [op |-> "decode_encode", word |-> codec.word, instr |-> codec.instr,
                 result |-> Instruction_encode(codec.instr)]
    /\ UNCHANGED << machine_vars, big_endian, overflow_checks >>

NextCodec ==
    \/ \E i \in Instructions : Encode(i)
    \/ \E w \in Words : Decode(w)
    \/ DecodeEncoded
    \/ EncodeDecoded

SpecCodec == InitCodec /\ [][NextCodec]_vars

(***************************************************************************)
(* Properties of the codec (checked under SpecCodec)                       *)
(***************************************************************************)

\* C1: decoding the word that encode gives for an instruction whose operands
\* fit their fields (registers 0..7, imm5 0..31, pc_offset6 0..63, pc_offset9
\* 0..511, pc_offset11 0..2047, any nzp, any trap code) gives that instruction
\* back.
C1_DecodeEncodeIsIdentity ==
    codec.op = "encode_decode" => codec.result = codec.instr

\* C2: encoding the instruction that decode gives for a word of a supported
\* opcode (and, for Trap, of a defined trap vector) gives that word back.
C2_EncodeDecodeIsIdentity ==
    codec.op = "decode_encode" => codec.result = codec.word

\* C3: decoding a word whose bits 12-15 are 8 or 13 fails as an unrecognized
\* opcode, whatever its other 12 bits are, and yields no instruction.
C3_UnsupportedOpcodeRejected ==
    (codec.op = "decode" /\ (codec.word \div 4096) \in {8, 13})
        => codec.instr = UnrecognizedOpcode

C3_Witness ==
    /\ codec.op = "decode"
    /\ codec.word = 13 * 4096 + 4095
    /\ codec.instr = UnrecognizedOpcode

\* C4: a word of opcode 15 decodes to Trap with the trap code whose value is
\* the word's low 8 bits when those are 0x20..0x25, and fails as an
\* unrecognized trap code for every other low byte.
C4_TrapDecode ==
    (codec.op = "decode" /\ codec.word \div 4096 = 15)
        => IF (codec.word % 256) \in 32 .. 37
           THEN /\ codec.instr.tag = "Trap"
                /\ codec.instr.vect8 \in TrapCodes
                /\ TrapCode_bits(codec.instr.vect8) = codec.word % 256
           ELSE codec.instr = UnrecognizedTrapCode

C4_Witness ==
    /\ codec.op = "decode"
    /\ codec.word = 15 * 4096 + 15 * 256 + 34
    /\ codec.instr = [tag |-> "Trap", vect8 |-> "Puts"]

\* C5: an Add or And word with bit 5 set decodes to the immediate variant
\* whose imm5 is the low 5 bits when bit 4 is clear and 0xFFE0 or-ed with the
\* low 5 bits when bit 4 is set (0b11111 gives 0xFFFF, 0b00001 gives 1), the
\* same for AddImmediate and AndImmediate.
C5_ImmediateSignExtended ==
    (/\ codec.op = "decode"
     /\ (codec.word \div 4096) \in {1, 5}
     /\ (codec.word \div 32) % 2 = 1)
        => /\ codec.instr.tag =
                (IF codec.word \div 4096 = 1 THEN "AddImmediate" ELSE "AndImmediate")
           /\ codec.instr.imm5 =
                (IF (codec.word \div 16) % 2 = 1
                 THEN 65504 + (codec.word % 32)
                 ELSE codec.word % 32)

C5_Witness ==
    /\ codec.op = "decode"
    /\ codec.word \div 4096 = 5
    /\ codec.word % 64 = 63
    /\ codec.instr.tag = "AndImmediate"
    /\ codec.instr.imm5 = 65535

(***************************************************************************)
(* Properties of step() (checked under Spec).  `last` holds the machine    *)
(* before the step (last.pre), what the step fetched (last.instr) and      *)
(* whether it panicked; the word it fetched is FetchedWord.                *)
(***************************************************************************)
FetchedWord == mem_read(last.pre.memory, last.pre.pc)

\* the flag for a register value: ZERO for 0, NEGATIVE with bit 15 set
FlagFor(v) == IF v = 0 THEN ZERO ELSE IF v >= 32768 THEN NEGATIVE ELSE POSITIVE

\* the low `bits` bits of word w as a two's-complement number, in 16 bits
SignExtended(w, bits) ==
    LET field == w % Pow2(bits) IN
    IF field >= Pow2(bits - 1) THEN 65536 - Pow2(bits) + field ELSE field

RegisterWriting ==
    { "AddImmediate", "AddRegister", "AndImmediate", "AndRegister", "Not", "Load",
      "LoadIndirect", "LoadBaseOffset", "LoadEffectiveAddress" }

Stepped(tags) == last.op = "step" /\ last.instr.tag \in tags

\* C6: after a step that executes a register-writing instruction, cond is
\* exactly one of POSITIVE, ZERO, NEGATIVE and is the flag of the value now in
\* registers[dr].
C6_FlagRule ==
    (Stepped(RegisterWriting) /\ ~last.panicked)
        => /\ cond \in {POSITIVE, ZERO, NEGATIVE}
           /\ cond = FlagFor(registers[last.instr.dr])

C6_Witness ==
    /\ Stepped({"Load"})
    /\ ~last.panicked
    /\ last.pre.cond = POSITIVE
    /\ registers[last.instr.dr] = 32768
    /\ cond = NEGATIVE

\* C7: a step on AddRegister leaves registers[dr] = (a + b) mod 2^16 and a step
\* on AddImmediate leaves registers[dr] = (a + sign-extended imm5) mod 2^16,
\* for all register contents, with the flag of the sum and without failing
\* on overflow.
C7_AddWraps ==
    /\ Stepped({"AddRegister"})
          => /\ ~last.panicked
             /\ registers[(FetchedWord \div 512) % 8] =
                    (last.pre.registers[(FetchedWord \div 64) % 8]
                     + last.pre.registers[FetchedWord % 8]) % 65536
             /\ cond = FlagFor(registers[(FetchedWord \div 512) % 8])
    /\ Stepped({"AddImmediate"})
          => /\ ~last.panicked
             /\ registers[(FetchedWord \div 512) % 8] =
                    (last.pre.registers[(FetchedWord \div 64) % 8]
                     + SignExtended(FetchedWord, 5)) % 65536
             /\ cond = FlagFor(registers[(FetchedWord \div 512) % 8])

C7_Witness ==
    /\ Stepped({"AddRegister"})
    /\ last.pre.registers[last.instr.sr1] = 65535
    /\ last.pre.registers[last.instr.sr2] = 65535
    /\ last.instr.sr1 # last.instr.sr2
    /\ registers[last.instr.dr] = 65534
    /\ cond = NEGATIVE

C7_WitnessZero ==
    /\ Stepped({"AddImmediate"})
    /\ last.pre.registers[last.instr.sr1] = 1
    /\ last.instr.imm5 = 65535
    /\ registers[last.instr.dr] = 0
    /\ cond = ZERO

\* C8: a step on Branch from pre-fetch PC p leaves the PC at p + 1 + pc_offset9
\* (the sign-extended 9-bit field, modulo 2^16) when the current flag is in the
\* nzp mask and at p + 1 otherwise, and changes no register, memory word or
\* flag.
C8_BranchGating ==
    Stepped({"Branch"})
        => /\ ~last.panicked
           /\ pc = IF ((((FetchedWord \div 512) % 8) \div last.pre.cond) % 2) = 1
                   THEN (last.pre.pc + 1 + SignExtended(FetchedWord, 9)) % 65536
                   ELSE last.pre.pc + 1
           /\ registers = last.pre.registers
           /\ memory = last.pre.memory
           /\ cond = last.pre.cond

\* C9: a step on JumpSubRoutineOffset or JumpSubRoutineRegister from pre-fetch
\* PC p leaves register 7 equal to p + 1, whatever the operand; a
\* JumpSubRoutineOffset of offset 10 at 0x3000 leaves the PC at 0x300B.
C9_SubroutineLinkage ==
    Stepped({"JumpSubRoutineOffset", "JumpSubRoutineRegister"})
        => /\ registers[7] = last.pre.pc + 1
           /\ (FetchedWord = 18442 /\ last.pre.pc = 12288)
                 => (~last.panicked /\ pc = 12299)

C9_Witness ==
    /\ Stepped({"JumpSubRoutineOffset"})
    /\ FetchedWord = 18442
    /\ last.pre.pc = 12288
    /\ last.pre.registers[7] = 0
    /\ registers[7] = 12289
    /\ pc = 12299

C9_WitnessRegister ==
    /\ Stepped({"JumpSubRoutineRegister"})
    /\ last.pre.pc = DataB
    /\ registers[7] = 65535
    /\ pc = 65534

\* C10: a step on LoadIndirect from pre-fetch PC p leaves registers[dr] equal
\* to memory[memory[p + 1 + pc_offset9]] for every pointer value 0..0xFFFF at
\* the first address, with cond the flag of that value.
C10_IndirectLoad ==
    Stepped({"LoadIndirect"})
        => /\ ~last.panicked
           /\ registers[(FetchedWord \div 512) % 8] =
                 mem_read(last.pre.memory,
                          mem_read(last.pre.memory,
                                   (last.pre.pc + 1 + SignExtended(FetchedWord, 9))
                                       % 65536))
           /\ cond = FlagFor(registers[(FetchedWord \div 512) % 8])

\* the instructions whose execution indexes memory with a computed address
MemoryAccessing ==
    { "Load", "LoadBaseOffset", "LoadIndirect", "Store", "StoreBaseOffset",
      "StoreIndirect" }

\* C11: no step indexes memory outside the array or fails because of an
\* address: the fetch at any pc, 0xFFFF included, finds a word, and a Load,
\* LoadBaseOffset, LoadIndirect, Store, StoreBaseOffset, StoreIndirect, Puts or
\* PutsP completes whatever address it computes.
C11_MemoryBounds ==
    last.op = "step"
        => /\ last.instr.tag # "FetchOutOfBounds"
           /\ last.instr.tag \in MemoryAccessing => ~last.panicked
           /\ (last.instr.tag = "Trap" /\ last.instr.vect8 \in {"Puts", "PutsP"})
                 => ~last.panicked

\* C12: a step that changes a general register leaves cond the flag of the
\* value it wrote: registers[dr] for the register-writing instructions,
\* register 7 for JumpSubRoutineOffset and JumpSubRoutineRegister, register 0
\* for the GetC and In traps.
C12_RegisterWriteSetsFlag ==
    /\ (Stepped(RegisterWriting) /\ ~last.panicked)
          => cond = FlagFor(registers[last.instr.dr])
    /\ Stepped({"JumpSubRoutineOffset", "JumpSubRoutineRegister"})
          => cond = FlagFor(registers[7])
    /\ (Stepped({"Trap"}) /\ last.instr.vect8 \in {"GetC", "In"} /\ ~last.panicked)
          => cond = FlagFor(registers[0])

FlagPreserving ==
    { "Branch", "Jump", "JumpSubRoutineOffset", "JumpSubRoutineRegister", "Store",
      "StoreIndirect", "StoreBaseOffset", "Trap" }

\* C13: a step on Branch, Jump, JumpSubRoutineOffset, JumpSubRoutineRegister,
\* Store, StoreIndirect, StoreBaseOffset or any Trap leaves cond as it was, and
\* a step changes cond only when it executes a register-writing instruction,
\* whose write goes through set_register.
C13_FlagsFrame ==
    /\ Stepped(FlagPreserving) => cond = last.pre.cond
    /\ (last.op = "step" /\ cond # last.pre.cond) => Stepped(RegisterWriting)

C13_Witness ==
    /\ Stepped({"Trap"})
    /\ last.instr.vect8 = "GetC"
    /\ ~last.panicked
    /\ registers[0] = 65
    /\ last.pre.registers[0] = 0
    /\ cond = ZERO
    /\ last.pre.cond = ZERO

C13_WitnessStore ==
    /\ Stepped({"Store"})
    /\ ~last.panicked
    /\ memory # last.pre.memory
    /\ last.pre.cond = NEGATIVE
    /\ cond = NEGATIVE

\* C14: in every state of the machine, as constructed and after any calls of
\* set_register and step, cond is exactly one of POSITIVE, ZERO, NEGATIVE.
C14_OneFlag == cond \in {POSITIVE, ZERO, NEGATIVE}

C14_Witness ==
    /\ last.op = "step"
    /\ nsteps = 2
    /\ last.pre.cond = NEGATIVE
    /\ cond = POSITIVE
    /\ cond # FlagFor(0)

Halt == [tag |-> "Trap", vect8 |-> "Halt"]

\* C16: run() sets running; while it is set only a step that executes the
\* Halt trap clears it; run() returns only when running is clear, right after
\* a step that executed Trap Halt, so on a program that reaches no Halt it
\* does not return.
C16_RunLoop ==
    [][ /\ (ctl = "idle" /\ ctl' = "run") => running'
        /\ (running /\ ~running')
              => (last'.op = "step" /\ last'.instr = Halt /\ ~last'.panicked)
        /\ (ctl = "run" /\ ctl' = "idle")
              => (~running /\ last.op = "step" /\ last.instr = Halt) ]_vars

C16_Witness ==
    /\ last.op = "run_return"
    /\ ctl = "idle"
    /\ ~running
    /\ nsteps = 2
    /\ pc = DataA + 1
    /\ stdout = HaltNotice

\* C17: a step that fetches a word that does not decode (opcode 8 or 13, or a
\* Trap with an undefined vector) aborts; no later step runs; and pc,
\* registers, memory and cond are as they were before the step.
C17_DecodeFailureStops ==
    Stepped({"UnrecognizedOpcode", "UnrecognizedTrapCode"})
        => /\ last.panicked
           /\ ctl = "panicked"
           /\ pc = last.pre.pc
           /\ registers = last.pre.registers
           /\ memory = last.pre.memory
           /\ cond = last.pre.cond

\* the opcode of the family of an instruction variant
FamilyOpcode(tag) ==
    CASE tag \in {"AddImmediate", "AddRegister"} -> 1
      [] tag \in {"AndImmediate", "AndRegister"} -> 5
      [] tag = "Branch" -> 0
      [] tag = "Jump" -> 12
      [] tag \in {"JumpSubRoutineOffset", "JumpSubRoutineRegister"} -> 4
      [] tag = "Load" -> 2
      [] tag = "LoadBaseOffset" -> 6
      [] tag = "LoadEffectiveAddress" -> 14
      [] tag = "LoadIndirect" -> 10
      [] tag = "Not" -> 9
      [] tag = "Store" -> 3
      [] tag = "StoreBaseOffset" -> 7
      [] tag = "StoreIndirect" -> 11
      [] tag = "Trap" -> 15

\* C18: bits 12-15 of the word encode gives for an instruction whose operands
\* fit their fields are the opcode of the instruction's family, so never 8 or
\* 13 (checked under SpecCodec).
C18_EncodeOpcode ==
    codec.op = "encode"
        => /\ codec.word \div 4096 = FamilyOpcode(codec.instr.tag)
           /\ (codec.word \div 4096) \notin {8, 13}

\* C19: a step from pre-fetch PC p that fetches a word of opcode 4 with bit 11
\* set leaves the PC at (p + 1 + s) mod 2^16, s being bits 0-10 of the word
\* sign-extended from 11 bits.
C19_JsrTarget ==
    (/\ last.op = "step"
     /\ last.instr.tag # "FetchOutOfBounds"
     /\ FetchedWord \div 2048 = 9)
        => /\ ~last.panicked
           /\ pc = (last.pre.pc + 1 + SignExtended(FetchedWord, 11)) % 65536

\* the instructions whose handlers assign the program counter
PcWriting == { "Branch", "Jump", "JumpSubRoutineOffset", "JumpSubRoutineRegister" }

\* C20: a step at any pc, 0xFFFF included, fetches memory[pc] and increments
\* the PC modulo 2^16: after a step on an instruction that does not itself
\* assign the PC, the PC is (p + 1) mod 2^16.
C20_PcIncrementWraps ==
    last.op = "step"
        => /\ last.instr.tag # "FetchOutOfBounds"
           /\ last.instr.tag \notin PcWriting => pc = (last.pre.pc + 1) % 65536

\* whether the nzp mask of the fetched Branch word holds the flag cond had
BranchTaken == (((FetchedWord \div 512) % 8) \div last.pre.cond) % 2 = 1

\* bits 9-11 and bits 6-8 of the fetched word
FieldHi == (FetchedWord \div 512) % 8
FieldMid == (FetchedWord \div 64) % 8

\* (p + 1 + sext9(f)) mod 2^16 for the fetched word
Target9 == (last.pre.pc + 1 + SignExtended(FetchedWord, 9)) % 65536

\* C21: for a taken Branch, Load, LoadIndirect, LoadEffectiveAddress, Store
\* and StoreIndirect fetched at p, the target or effective address is
\* (p + 1 + sext9(f)) mod 2^16 for every offset field f, negative ones
\* included, and the step does not fail on the arithmetic (stated for
\* addresses below 0xFFFF where memory is indexed).
C21_PcRelativeModulo ==
    /\ Stepped({"LoadEffectiveAddress"})
          => (~last.panicked /\ registers[FieldHi] = Target9)
    /\ (Stepped({"Branch"}) /\ BranchTaken)
          => (~last.panicked /\ pc = Target9)
    /\ (Stepped({"Load"}) /\ Target9 < 65535)
          => (~last.panicked /\ registers[FieldHi] = mem_read(last.pre.memory, Target9))
    /\ (Stepped({"LoadIndirect"}) /\ Target9 < 65535
            /\ mem_read(last.pre.memory, Target9) < 65535)
          => /\ ~last.panicked
             /\ registers[FieldHi] =
                   mem_read(last.pre.memory, mem_read(last.pre.memory, Target9))
    /\ (Stepped({"Store"}) /\ Target9 < 65535)
          => /\ ~last.panicked
             /\ mem_read(memory, Target9) = last.pre.registers[FieldHi]
    /\ (Stepped({"StoreIndirect"}) /\ Target9 < 65535
            /\ mem_read(last.pre.memory, Target9) < 65535)
          => /\ ~last.panicked
             /\ mem_read(memory, mem_read(last.pre.memory, Target9)) =
                   last.pre.registers[FieldHi]

\* (registers[base_r] + sext6(f)) mod 2^16 for the decoded base register
BaseOffsetAddress ==
    (last.pre.registers[last.instr.base_r] + SignExtended(FetchedWord, 6)) % 65536

\* C22: a step on LoadBaseOffset or StoreBaseOffset uses the address
\* (registers[base_r] + sext6(f)) mod 2^16 for every 6-bit offset field f, so
\* 0b111111 addresses the word just below registers[base_r]; LoadBaseOffset
\* leaves that word in registers[dr] with cond its flag (stated for addresses
\* below 0xFFFF).
C22_BaseOffsetAddress ==
    /\ (Stepped({"LoadBaseOffset"}) /\ BaseOffsetAddress < 65535)
          => /\ ~last.panicked
             /\ registers[FieldHi] = mem_read(last.pre.memory, BaseOffsetAddress)
             /\ cond = FlagFor(registers[FieldHi])
    /\ (Stepped({"StoreBaseOffset"}) /\ BaseOffsetAddress < 65535)
          => /\ ~last.panicked
             /\ mem_read(memory, BaseOffsetAddress) = last.pre.registers[FieldHi]

\* C23: a Jump, JumpSubRoutineRegister, LoadBaseOffset or StoreBaseOffset word
\* decodes to base_r = bits 6-8 of the word, for every index 0..7, and a step
\* on Jump leaves pc = registers[b], b = 7 included.
C23_BaseRegister ==
    /\ Stepped({"Jump", "JumpSubRoutineRegister", "LoadBaseOffset", "StoreBaseOffset"})
          => last.instr.base_r = FieldMid
    /\ Stepped({"Jump"}) => pc = last.pre.registers[FieldMid]

\* the memory m with value v at address a, as the map of its non-zero words
Written(m, a, v) ==
    [x \in (DOMAIN m \ {a}) \cup (IF v = 0 THEN {} ELSE {a}) |->
        IF x = a THEN v ELSE m[x]]

\* C24: a step on Store, StoreIndirect or StoreBaseOffset writes registers[sr]
\* to the one word at p+1+offset, at memory[p+1+offset], or at
\* registers[base_r]+offset, and leaves every other word, the registers and
\* cond as they were; no other instruction changes memory.
C24_StoreFrame ==
    /\ Stepped({"Store"})
          => /\ ~last.panicked
             /\ memory = Written(last.pre.memory, Target9, last.pre.registers[FieldHi])
    /\ Stepped({"StoreIndirect"})
          => /\ ~last.panicked
             /\ memory = Written(last.pre.memory, mem_read(last.pre.memory, Target9),
                                 last.pre.registers[FieldHi])
    /\ Stepped({"StoreBaseOffset"})
          => /\ ~last.panicked
             /\ memory = Written(last.pre.memory,
                                 (last.pre.registers[FieldMid]
                                  + SignExtended(FetchedWord, 6)) % 65536,
                                 last.pre.registers[FieldHi])
    /\ Stepped({"Store", "StoreIndirect", "StoreBaseOffset"})
          => (registers = last.pre.registers /\ cond = last.pre.cond)
    /\ (last.op = "step" /\ memory # last.pre.memory)
          => Stepped({"Store", "StoreIndirect", "StoreBaseOffset"})

\* bit i of x, and the bitwise AND of two 16-bit values bit by bit
BitOf(x, i) == (x \div (2 ^ i)) % 2
AndBits(a, b) ==
    LET S[i \in 0 .. 16] ==
            IF i = 0 THEN 0
            ELSE S[i - 1] + (2 ^ (i - 1)) * BitOf(a, i - 1) * BitOf(b, i - 1)
    IN  S[16]

\* C25: a step on AndRegister leaves registers[dr] = registers[sr1] AND
\* registers[sr2]; a step on AndImmediate leaves registers[dr] = registers[sr1]
\* AND the imm5 sign-extended to 16 bits (0xFFF3 AND 0b10001 gives 0xFFF1);
\* cond is the flag of the result.
C25_And ==
    /\ Stepped({"AndRegister"})
          => /\ ~last.panicked
             /\ registers[FieldHi] =
                   AndBits(last.pre.registers[FieldMid],
                           last.pre.registers[FetchedWord % 8])
             /\ cond = FlagFor(registers[FieldHi])
    /\ Stepped({"AndImmediate"})
          => /\ ~last.panicked
             /\ registers[FieldHi] =
                   AndBits(last.pre.registers[FieldMid], SignExtended(FetchedWord, 5))
             /\ cond = FlagFor(registers[FieldHi])

C25_Witness ==
    /\ Stepped({"AndImmediate"})
    /\ FetchedWord % 64 = 49
    /\ last.pre.registers[FieldMid] = 65523
    /\ FieldHi # FieldMid
    /\ registers[FieldHi] = 65521
    /\ cond = NEGATIVE

C25_WitnessRegister ==
    /\ Stepped({"AndRegister"})
    /\ last.pre.registers[FieldMid] = 65523
    /\ last.pre.registers[FetchedWord % 8] = 12296
    /\ registers[FieldHi] = 12288
    /\ cond = POSITIVE

\* C26: a step that executes Trap Halt clears running and leaves pc at the
\* address after the Halt word; in run(), once running is clear the loop
\* takes no further step: the next thing is the return of run(), with the
\* machine as the Halt step left it.
C26_HaltTerminatesRun ==
    /\ [](Stepped({"Trap"}) /\ last.instr = Halt
             => (~last.panicked /\ ~running /\ pc = last.pre.pc + 1))
    /\ [][ (ctl = "run" /\ last.op = "step" /\ last.instr = Halt)
              => /\ ctl' = "idle"
                 /\ last'.op = "run_return"
                 /\ nsteps' = nsteps
                 /\ << memory, registers, pc, cond, running, stdout >>' =
                       << memory, registers, pc, cond, running, stdout >> ]_vars

C26_Witness ==
    /\ last.op = "run_return"
    /\ nsteps = 1
    /\ ~running
    /\ pc = 12289
    /\ mem_read(memory, 12288) = 61477
    /\ stdout = HaltNotice

\* C27: Trap Out appends exactly one byte to the output, the low 8 bits of
\* register 0, for every value of register 0, and changes no register, memory
\* word, cond or running.
C27_TrapOut ==
    (Stepped({"Trap"}) /\ last.instr.vect8 = "Out")
        => /\ ~last.panicked
           /\ stdout = last.pre.stdout \o << last.pre.registers[0] % 256 >>
           /\ registers = last.pre.registers
           /\ memory = last.pre.memory
           /\ cond = last.pre.cond
           /\ running = last.pre.running

\* the characters of a byte sequence read as UTF-8 with sequences of one or
\* two bytes
RECURSIVE CharsOf(_)
CharsOf(bytes) ==
    IF bytes = << >> THEN << >>
    ELSE IF bytes[1] < 128 THEN << bytes[1] >> \o CharsOf(Tail(bytes))
    ELSE << (bytes[1] - 192) * 64 + (bytes[2] - 128) >> \o CharsOf(Tail(Tail(bytes)))

\* the addresses of memory at or after register 0 that hold a zero word
Terminators == { z \in last.pre.registers[0] .. 65534 : mem_read(last.pre.memory, z) = 0 }

\* C28: Trap Puts on a memory with a zero word at or after registers[0] writes
\* one character per word, the word's low byte, for the words before the first
\* zero word and then stops, without failing on a read past the terminator,
\* and leaves registers, memory and cond as they were and pc after the trap
\* word.
C28_Puts ==
    (Stepped({"Trap"}) /\ last.instr.vect8 = "Puts" /\ Terminators # {})
        => LET a == last.pre.registers[0]
               z == CHOOSE t \in Terminators : \A u \in Terminators : t <= u
               n == Len(last.pre.stdout)
           IN  /\ ~last.panicked
               /\ SubSeq(stdout, 1, n) = last.pre.stdout
               /\ CharsOf(SubSeq(stdout, n + 1, Len(stdout))) =
                     [i \in 1 .. (z - a) |-> mem_read(last.pre.memory, a + i - 1) % 256]
               /\ registers = last.pre.registers
               /\ memory = last.pre.memory
               /\ cond = last.pre.cond
               /\ pc = last.pre.pc + 1

C28_Witness ==
    /\ Stepped({"Trap"})
    /\ last.instr.vect8 = "Puts"
    /\ last.pre.registers[0] = DataA
    /\ mem_read(memory, DataA) = 72
    /\ mem_read(memory, DataA + 1) = 456
    /\ mem_read(memory, DataA + 2) = 0
    /\ mem_read(memory, DataA + 3) = 33
    /\ ~last.panicked
    /\ CharsOf(stdout) = << 72, 200 >>

C28_WitnessTop ==
    /\ Stepped({"Trap"})
    /\ last.instr.vect8 = "Puts"
    /\ last.pre.registers[0] = 65534
    /\ mem_read(memory, 65534) = 0
    /\ ~last.panicked
    /\ stdout = << >>

NonControlFlow ==
    RegisterWriting \cup {"Store", "StoreIndirect", "StoreBaseOffset", "Trap"}

\* C29: after a step from pre-fetch PC p that executes an Add, And, Not, Load,
\* LoadIndirect, LoadBaseOffset, LoadEffectiveAddress, Store, StoreIndirect,
\* StoreBaseOffset or Trap instruction the PC is (p + 1) mod 2^16; a step that
\* executes an instruction and leaves another PC executed a taken Branch, a
\* Jump or a JumpSubRoutine.
C29_PcAdvance ==
    /\ Stepped(NonControlFlow) => pc = (last.pre.pc + 1) % 65536
    /\ (/\ last.op = "step"
        /\ last.instr.tag \notin
              {"FetchOutOfBounds", "UnrecognizedOpcode", "UnrecognizedTrapCode"}
        /\ pc # (last.pre.pc + 1) % 65536)
          => \/ Stepped({"Jump", "JumpSubRoutineOffset", "JumpSubRoutineRegister"})
             \/ (Stepped({"Branch"}) /\ BranchTaken)

C29_Witness ==
    /\ Stepped({"AddImmediate"})
    /\ nsteps = 2
    /\ last.pre.pc = 65534
    /\ registers[FieldHi] # last.pre.registers[FieldHi]
    /\ pc = 65535

\* C30: a step that executes a register-writing instruction with destination
\* dr changes no general register but registers[dr] and no memory word; a
\* step on Branch or Jump changes no register.
C30_RegisterFrame ==
    /\ Stepped(RegisterWriting)
          => /\ \A r \in (0 .. 7) \ {FieldHi} : registers[r] = last.pre.registers[r]
             /\ memory = last.pre.memory
    /\ Stepped({"Branch", "Jump"}) => registers = last.pre.registers

C30_Witness ==
    /\ Stepped({"AddRegister"})
    /\ FieldHi = 3
    /\ last.pre.registers[1] = 12296
    /\ last.pre.registers[2] = 65535
    /\ registers[3] = 12295
    /\ registers[1] = 12296
    /\ registers[2] = 65535

C30_WitnessJump ==
    /\ Stepped({"Jump"})
    /\ pc = 65534
    /\ last.pre.pc = 12288
    /\ registers = last.pre.registers
    /\ registers[1] = 65534

(***************************************************************************)
(* Decode totality (checked under SpecCodec)                               *)
(***************************************************************************)
Variants ==
    { "AddImmediate", "AddRegister", "AndImmediate", "AndRegister", "Branch", "Jump",
      "JumpSubRoutineOffset", "JumpSubRoutineRegister", "Load", "LoadBaseOffset",
      "LoadEffectiveAddress", "LoadIndirect", "Not", "Store", "StoreBaseOffset",
      "StoreIndirect", "Trap" }

RegisterFields == { "dr", "sr", "sr1", "sr2", "base_r" }

\* C31: a word whose opcode is not 8 or 13 and, for opcode 15, whose low byte
\* is a defined trap vector decodes to an instruction without failing; a
\* Branch word is accepted with each nzp value 0..7, and every decoded dr, sr,
\* sr1, sr2 and base_r is in 0..7, an index of the register file.
C31_DecodeTotal ==
    (/\ codec.op = "decode"
     /\ (codec.word \div 4096) \notin {8, 13}
     /\ (codec.word \div 4096 = 15) => (codec.word % 256) \in 32 .. 37)
        => /\ codec.instr.tag \in Variants
           /\ codec.instr.tag = "Branch" <=> codec.word \div 4096 = 0
           /\ codec.instr.tag = "Branch"
                 => codec.instr.nzp = (codec.word \div 512) % 8
           /\ \A f \in RegisterFields \cap DOMAIN codec.instr :
                 codec.instr[f] \in 0 .. 7

C31_Witness ==
    /\ codec.op = "decode"
    /\ codec.word = Word(0, 7, 7, 63)
    /\ codec.instr.tag = "Branch"
    /\ codec.instr.nzp = 7

C31_WitnessRegisters ==
    /\ codec.op = "decode"
    /\ codec.word = Word(7, 7, 7, 63)
    /\ codec.instr.tag = "StoreBaseOffset"
    /\ codec.instr.sr = 7
    /\ codec.instr.base_r \in 0 .. 7

====
